---- MODULE Spec2Model ----
(***************************************************************************)
(* The progress-broadcast subsystem of backend/main.py: the websocket      *)
(* ConnectionManager, the DownloadManager status slot written by the       *)
(* yt-dlp progress hook from a worker thread, the broadcast_progress       *)
(* poller task and the /download, /ws and /info endpoints.                 *)
(*                                                                         *)
(* Python values: a str that the code transforms (strip, basename) is a    *)
(* tuple of one-character strings; a dict is a function from its keys to   *)
(* its values, {} being the function with the empty domain; a list is a    *)
(* sequence. A character that a TLA+ string cannot hold is written as its   *)
(* Python escape: "\\x0b" is the one character VT.                          *)
(***************************************************************************)
EXTENDS Naturals, Sequences, FiniteSets, TLC

\* Bounds of the model.
NumConns == 3
MaxLaunches == 2
MaxRegistered == 4
MaxFormats == 3

Conns == 1..NumConns

VARIABLES
    active_connections, \* ConnectionManager.active_connections
    raised,             \* exception raised by the last ConnectionManager call
    current_status,     \* DownloadManager.current_status
    last_status,        \* local of broadcast_progress
    pc,                 \* position of the broadcast_progress task
    message,            \* argument of the running manager.broadcast call
    it,                 \* index of the list iterator of the for loop
    connection,         \* loop variable of manager.broadcast
    ws,                 \* state of the websocket_endpoint handler of each socket
    script,             \* the dicts yt-dlp passes to the hook during one job
    jobs,               \* per launched job, the number of hook calls made
    launches_left,      \* POST /download requests still to come
    response,           \* last value returned by start_download
    failed,             \* sockets whose send_text raised
    \* bookkeeping of the running manager.broadcast call
    bc_start,           \* active_connections when it began
    bc_changed,         \* the registry changed since
    bc_attempts,        \* sockets it called send_text on, in order
    bc_delivered,       \* sockets whose send_text returned
    \* history of the run, as an observer records it
    written,            \* values assigned to current_status, in order
    cur_seen,           \* the last written value was current when a cycle began
    all_seen,           \* so was every value written before it
    published,          \* arguments of the manager.broadcast calls, in order
    rx,                 \* messages the first socket received, in order
    rx_early,           \* the first socket registered before any launch
    \* POST /info
    extracted,          \* the info dict ydl.extract_info returns
    info_response       \* value returned by get_info

mgrVars == <<active_connections, raised>>
pollVars == <<last_status, pc, message, it, connection>>
jobVars == <<current_status, script, jobs, launches_left, response>>
bcVars == <<bc_start, bc_changed, bc_attempts, bc_delivered>>
obsVars == <<written, cur_seen, all_seen, published, rx, rx_early>>
infoVars == <<extracted, info_response>>
vars == <<mgrVars, pollVars, jobVars, bcVars, obsVars, infoVars, ws, failed>>

----------------------------------------------------------------------------
(* Python strings, dicts and lists *)

None == <<"None">>
EmptyDict == [k \in {} |-> None]

Get(d, k, default) == IF k \in DOMAIN d THEN d[k] ELSE default

\* The characters for which str.isspace() holds.
WhiteSpace ==
    {" ", "\t", "\n", "\r", "\f", "\\x0b", "\\x1c", "\\x1d", "\\x1e", "\\x1f",
     "\\x85", "\\xa0", "\\u1680", "\\u2000", "\\u2001", "\\u2002", "\\u2003",
     "\\u2004", "\\u2005", "\\u2006", "\\u2007", "\\u2008", "\\u2009", "\\u200a",
     "\\u2028", "\\u2029", "\\u202f", "\\u205f", "\\u3000"}

IsSpace(ch) == ch \in WhiteSpace

RECURSIVE LStrip(_)
LStrip(s) == IF s # <<>> /\ IsSpace(Head(s)) THEN LStrip(Tail(s)) ELSE s

RECURSIVE RStrip(_)
RStrip(s) ==
    IF s # <<>> /\ IsSpace(s[Len(s)]) THEN RStrip(SubSeq(s, 1, Len(s) - 1)) ELSE s

Strip(s) == RStrip(LStrip(s))

Basename(p) ==
    LET slashes == {i \in 1..Len(p) : p[i] = "/"}
        last == CHOOSE i \in slashes : \A j \in slashes : j <= i
    IN  IF slashes = {} THEN p ELSE SubSeq(p, last + 1, Len(p))

Contains(list, x) == \E i \in 1..Len(list) : list[i] = x

ListRemove(list, x) ==
    LET i == CHOOSE k \in 1..Len(list) :
                 list[k] = x /\ \A j \in 1..(k - 1) : list[j] # x
    IN  SubSeq(list, 1, i - 1) \o SubSeq(list, i + 1, Len(list))

Range(list) == {list[i] : i \in 1..Len(list)}

RECURSIVE IsSubseq(_, _)
IsSubseq(s, t) ==
    IF s = <<>> THEN TRUE
    ELSE IF t = <<>> THEN FALSE
    ELSE IF Head(s) = Head(t) THEN IsSubseq(Tail(s), Tail(t))
    ELSE IsSubseq(s, Tail(t))

\* Insertion order of the keys of every dict literal assigned to current_status.
KeyOrder == <<"status", "percent", "speed", "eta", "filename">>

JsonDumps(d) ==
    LET keys == SelectSeq(KeyOrder, LAMBDA k : k \in DOMAIN d)
    IN  [i \in 1..Len(keys) |-> <<keys[i], d[keys[i]]>>]

----------------------------------------------------------------------------
(* DownloadManager.hook *)

\* None.strip() raises AttributeError and os.path.basename(None) TypeError:
\* the assignment of current_status is not reached.
HookRaises(d) ==
    /\ d["status"] = "downloading"
    /\ \E k \in {"_percent_str", "_speed_str", "_eta_str", "filename"} :
           Get(d, k, <<>>) = None

hook(status, d) ==
    IF HookRaises(d) THEN status
    ELSE IF d["status"] = "downloading"
    THEN ("status" :> "downloading")
         @@ ("percent" :> Strip(Get(d, "_percent_str", <<>>)))
         @@ ("speed" :> Strip(Get(d, "_speed_str", <<>>)))
         @@ ("eta" :> Strip(Get(d, "_eta_str", <<>>)))
         @@ ("filename" :> Basename(Get(d, "filename", <<>>)))
    ELSE IF d["status"] = "finished"
    THEN ("status" :> "finished") @@ ("filename" :> Get(d, "filename", None))
    ELSE status

Starting == ("status" :> "starting")
Ack == "Download started"

----------------------------------------------------------------------------
(* The dicts yt-dlp passes to the progress hook *)

Path == <<"/", "d", "/", "v">>
P10 == <<" ", "1", "0", "%">>
P10b == <<"1", "0", "%", "\\xa0", " ">>
P55 == <<"5", "5", "%">>
P100 == <<"1", "0", "0", "%">>

Dl(p) == ("status" :> "downloading") @@ ("_percent_str" :> p) @@ ("filename" :> Path)
Fin == ("status" :> "finished") @@ ("filename" :> Path)
FinBare == ("status" :> "finished")
DlNone == ("status" :> "downloading") @@ ("_percent_str" :> None)
Err == ("status" :> "error")

\* Jobs of one hook call.
Scripts == {<<Dl(P10)>>, <<Err>>, <<FinBare>>, <<DlNone>>}

\* The job of five statuses, and a job of two files whose second file begins
\* with the progress the first began with.
JobScript == <<Dl(P10), Dl(P55), Dl(P100), Fin>>
TwoFileScript == <<Dl(P10), Fin, Err, Dl(P10b)>>
JobScripts == {JobScript, TwoFileScript}

----------------------------------------------------------------------------
(* State after module import and the startup event *)

Boot ==
    /\ active_connections = <<>>
    /\ raised = "none"
    /\ current_status = EmptyDict
    /\ last_status = EmptyDict
    /\ pc = "check"
    /\ message = <<>>
    /\ it = 0
    /\ connection = 0
    /\ ws = [c \in Conns |-> "new"]
    /\ jobs = <<>>
    /\ response = "none"
    /\ written = <<>>
    /\ cur_seen = TRUE
    /\ all_seen = TRUE
    /\ published = <<>>
    /\ rx = <<>>
    /\ rx_early = FALSE
    /\ failed = {}
    /\ bc_start = <<>>
    /\ bc_changed = FALSE
    /\ bc_attempts = <<>>
    /\ bc_delivered = {}
    /\ info_response = None

Init ==
    /\ Boot
    /\ script \in Scripts
    /\ launches_left = MaxLaunches
    /\ extracted = EmptyDict

\* The event loop runs another handler only while the poller task is suspended
\* in an await (send_text, sleep) or has ended.
Suspended == pc \in {"await", "sleep", "dead"}

----------------------------------------------------------------------------
(* ConnectionManager *)

connect(c) ==
    /\ active_connections' = Append(active_connections, c)
    /\ raised' = "none"

disconnect(c) ==
    IF Contains(active_connections, c)
    THEN /\ active_connections' = ListRemove(active_connections, c)
         /\ raised' = "none"
    ELSE /\ raised' = "ValueError"
         /\ UNCHANGED active_connections

\* for connection in self.active_connections: one step of the list iterator,
\* up to the await of send_text, or the return when the iterator is exhausted.
BroadcastNext ==
    /\ pc = "iter"
    /\ IF it < Len(active_connections)
       THEN /\ connection' = active_connections[it + 1]
            /\ it' = it + 1
            /\ pc' = "await"
            /\ bc_attempts' = Append(bc_attempts, active_connections[it + 1])
            /\ UNCHANGED message
       ELSE /\ pc' = "copy"
            /\ message' = <<>>
            /\ connection' = 0
            /\ it' = 0
            /\ UNCHANGED bc_attempts
    /\ UNCHANGED <<mgrVars, last_status, jobVars, failed,
                   bc_start, bc_changed, bc_delivered, ws>>

\* await connection.send_text(message) completes.
SendOk ==
    /\ pc = "await"
    /\ bc_delivered' = bc_delivered \cup {connection}
    /\ pc' = "iter"
    /\ UNCHANGED <<mgrVars, last_status, message, it, connection, jobVars,
                   failed, bc_start, bc_changed, bc_attempts, ws>>

\* await connection.send_text(message) raises: nothing catches it, so it leaves
\* broadcast and broadcast_progress and the task ends.
SendFail ==
    /\ pc = "await"
    /\ failed' = failed \cup {connection}
    /\ pc' = "dead"
    /\ UNCHANGED <<mgrVars, last_status, message, it, connection, jobVars, bcVars, ws>>

----------------------------------------------------------------------------
(* broadcast_progress *)

\* if download_manager.current_status != last_status
PollCheck ==
    /\ pc = "check"
    /\ pc' = IF current_status # last_status THEN "dump" ELSE "sleep"
    /\ UNCHANGED <<mgrVars, last_status, message, it, connection, jobVars,
                   failed, bcVars, ws>>

\* PollDump serializing last_status in place of the status slot.
PollDumpStale ==
    /\ pc = "dump"
    /\ message' = JsonDumps(last_status)
    /\ it' = 0
    /\ pc' = "iter"
    /\ bc_start' = active_connections
    /\ bc_changed' = FALSE
    /\ bc_attempts' = <<>>
    /\ bc_delivered' = {}
    /\ UNCHANGED <<mgrVars, last_status, connection, jobVars, failed, ws>>

\* json.dumps(download_manager.current_status), then the call of manager.broadcast
PollDump ==
    /\ pc = "dump"
    /\ message' = JsonDumps(current_status)
    /\ it' = 0
    /\ pc' = "iter"
    /\ bc_start' = active_connections
    /\ bc_changed' = FALSE
    /\ bc_attempts' = <<>>
    /\ bc_delivered' = {}
    /\ UNCHANGED <<mgrVars, last_status, connection, jobVars, failed, ws>>

\* PollCopy clearing the status slot once it has recorded it.
PollCopyConsume ==
    /\ pc = "copy"
    /\ last_status' = current_status
    /\ current_status' = EmptyDict
    /\ pc' = "sleep"
    /\ bc_start' = <<>>
    /\ bc_changed' = FALSE
    /\ bc_attempts' = <<>>
    /\ bc_delivered' = {}
    /\ UNCHANGED <<mgrVars, message, it, connection, script, jobs, launches_left,
                   response, failed, ws>>

\* last_status = download_manager.current_status.copy()
PollCopy ==
    /\ pc = "copy"
    /\ last_status' = current_status
    /\ pc' = "sleep"
    /\ bc_start' = <<>>
    /\ bc_changed' = FALSE
    /\ bc_attempts' = <<>>
    /\ bc_delivered' = {}
    /\ UNCHANGED <<mgrVars, message, it, connection, jobVars, failed, ws>>

\* await asyncio.sleep(0.5) completes
PollSleep ==
    /\ pc = "sleep"
    /\ pc' = "check"
    /\ UNCHANGED <<mgrVars, last_status, message, it, connection, jobVars,
                   failed, bcVars, ws>>

----------------------------------------------------------------------------
(* POST /download and the worker thread *)

\* Job j has not written Finished.
Running(j) == \A k \in 1..jobs[j] : script[k]["status"] # "finished"
RunningJob == \E j \in 1..Len(jobs) : Running(j)

\* start_download answering a conflict while a job runs.
start_download_exclusive ==
    /\ Suspended
    /\ launches_left > 0
    /\ launches_left' = launches_left - 1
    /\ IF RunningJob
       THEN /\ response' = "Conflict"
            /\ UNCHANGED <<current_status, jobs>>
       ELSE /\ current_status' = Starting
            /\ jobs' = Append(jobs, 0)
            /\ response' = Ack
    /\ UNCHANGED <<mgrVars, pollVars, script, failed, bcVars, ws>>

\* start_download scheduling run_download before it resets the status slot:
\* the worker's first hook call comes before the reset.
start_download_reset_late ==
    /\ Suspended
    /\ launches_left > 0
    /\ launches_left' = launches_left - 1
    /\ current_status' = Starting
    /\ jobs' = Append(jobs, 1)
    /\ response' = Ack
    /\ UNCHANGED <<mgrVars, pollVars, script, failed, bcVars, ws>>

start_download ==
    /\ Suspended
    /\ launches_left > 0
    /\ launches_left' = launches_left - 1
    /\ current_status' = Starting
    /\ jobs' = Append(jobs, 0)
    /\ response' = Ack
    /\ UNCHANGED <<mgrVars, pollVars, script, failed, bcVars, ws>>

\* run_download: yt-dlp calls download_manager.hook from the worker thread; an
\* exception of the hook leaves ydl.download and run_download, which ends the job
HookCall(j) ==
    /\ j \in 1..Len(jobs)
    /\ jobs[j] < Len(script)
    /\ current_status' = hook(current_status, script[jobs[j] + 1])
    /\ jobs' = [jobs EXCEPT ![j] =
                    IF HookRaises(script[jobs[j] + 1]) THEN Len(script) ELSE @ + 1]
    /\ UNCHANGED <<mgrVars, pollVars, script, launches_left, response, failed,
                   bcVars, ws>>

----------------------------------------------------------------------------
(* websocket_endpoint *)

\* WsConnect sending the last message to the socket that registers.
WsConnectReplay(c) ==
    /\ Suspended
    /\ ws[c] = "new"
    /\ \A b \in Conns : b < c => ws[b] # "new"
    /\ connect(c)
    /\ ws' = [ws EXCEPT ![c] = "open"]
    /\ bc_changed' = (bc_changed \/ pc = "await")
    /\ bc_delivered' = bc_delivered \cup {c}
    /\ UNCHANGED <<pollVars, jobVars, failed, bc_start, bc_attempts>>

\* await manager.connect(websocket); sockets are numbered in order of arrival
WsConnect(c) ==
    /\ Suspended
    /\ ws[c] = "new"
    /\ \A b \in Conns : b < c => ws[b] # "new"
    /\ connect(c)
    /\ ws' = [ws EXCEPT ![c] = "open"]
    /\ bc_changed' = (bc_changed \/ pc = "await")
    /\ UNCHANGED <<pollVars, jobVars, failed, bc_start, bc_attempts, bc_delivered>>

\* receive_text raises WebSocketDisconnect: manager.disconnect(websocket)
WsDisconnect(c) ==
    /\ Suspended
    /\ ws[c] = "open"
    /\ disconnect(c)
    /\ ws' = [ws EXCEPT ![c] = "closed"]
    /\ bc_changed' = (bc_changed \/ pc = "await")
    /\ UNCHANGED <<pollVars, jobVars, failed, bc_start, bc_attempts, bc_delivered>>

\* receive_text raises anything else: the except clause does not match
WsCrash(c) ==
    /\ Suspended
    /\ ws[c] = "open"
    /\ ws' = [ws EXCEPT ![c] = "crashed"]
    /\ UNCHANGED <<mgrVars, pollVars, jobVars, failed, bcVars>>

----------------------------------------------------------------------------
(* The server: two launches at most, any socket *)

Quiet == UNCHANGED <<obsVars, infoVars>>

Next ==
    \/ PollCheck /\ Quiet
    \/ PollDump /\ Quiet
    \/ BroadcastNext /\ Quiet
    \/ SendOk /\ Quiet
    \/ SendFail /\ Quiet
    \/ PollCopy /\ Quiet
    \/ PollSleep /\ Quiet
    \/ start_download /\ Quiet
    \/ \E j \in 1..Len(jobs) : HookCall(j) /\ Quiet
    \/ \E c \in Conns : WsConnect(c) /\ Quiet
    \/ \E c \in Conns : WsDisconnect(c) /\ Quiet
    \/ \E c \in Conns : WsCrash(c) /\ Quiet

Spec == Init /\ [][Next]_vars

----------------------------------------------------------------------------
(* One job watched by the first socket, with the history of the run *)

InitJob ==
    /\ Boot
    /\ script \in JobScripts
    /\ launches_left = 1
    /\ extracted = EmptyDict

\* The step assigned current_status: a launch, or a hook call whose dict has
\* the status downloading or finished.
Assigned ==
    \/ Len(jobs') = Len(jobs) + 1
    \/ \E j \in 1..Len(jobs) :
           /\ jobs'[j] = jobs[j] + 1
           /\ script[jobs'[j]]["status"] \in {"downloading", "finished"}
           /\ ~HookRaises(script[jobs'[j]])

Observe ==
    /\ written' = IF Assigned THEN Append(written, current_status') ELSE written
    /\ cur_seen' = IF Assigned THEN FALSE ELSE IF pc = "check" THEN TRUE ELSE cur_seen
    /\ all_seen' = IF Assigned THEN all_seen /\ cur_seen ELSE all_seen
    /\ published' = IF pc = "dump" /\ pc' = "iter" THEN Append(published, message')
                    ELSE published
    /\ rx' = IF pc = "await" /\ pc' = "iter" /\ connection = 1 THEN Append(rx, message)
             ELSE rx
    /\ rx_early' = IF ws[1] = "new" /\ ws'[1] = "open" THEN written = <<>> ELSE rx_early
    /\ UNCHANGED infoVars

NextJob ==
    \/ PollCheck /\ Observe
    \/ PollDump /\ Observe
    \/ BroadcastNext /\ Observe
    \/ SendOk /\ Observe
    \/ SendFail /\ Observe
    \/ PollCopy /\ Observe
    \/ PollSleep /\ Observe
    \/ start_download /\ Observe
    \/ HookCall(1) /\ Observe
    \/ WsConnect(1) /\ Observe
    \/ WsDisconnect(1) /\ Observe
    \/ WsCrash(1) /\ Observe

SpecJob == InitJob /\ [][NextJob]_vars

----------------------------------------------------------------------------
(* ConnectionManager called directly, with any socket *)

MgrConnect(c) ==
    /\ Len(active_connections) < MaxRegistered
    /\ connect(c)
    /\ UNCHANGED <<pollVars, jobVars, bcVars, obsVars, infoVars, ws, failed>>

MgrDisconnect(c) ==
    /\ disconnect(c)
    /\ UNCHANGED <<pollVars, jobVars, bcVars, obsVars, infoVars, ws, failed>>

NextMgr ==
    \/ \E c \in Conns : MgrConnect(c)
    \/ \E c \in Conns : MgrDisconnect(c)

SpecMgr == Init /\ [][NextMgr]_vars

----------------------------------------------------------------------------
(* POST /info *)

\* A Python int; None, an int and a str compare without being equal.
Int(n) == <<"int", n>>

\* A Python list where the value may also be None.
List(items) == <<"list", items>>

\* bool(x) is False: None, 0, '' and [].
Falsy(x) == x = None \/ x = <<>> \/ x = Int(0) \/ x = List(<<>>)

\* x or y
Or(x, y) == IF Falsy(x) THEN y ELSE x

Playlist == <<"p", "l", "a", "y", "l", "i", "s", "t">>
NoCodec == <<"n", "o", "n", "e">>
AudioOnly == <<"a", "u", "d", "i", "o", " ", "o", "n", "l", "y">>

\* The dict appended to formats for the extractor's format f.
Simplified(f) ==
    ("format_id" :> f["format_id"])
    @@ ("resolution" :> Or(Get(f, "resolution", None), AudioOnly))
    @@ ("ext" :> f["ext"])
    @@ ("filesize" :> Get(f, "filesize", None))
    @@ ("note" :> Get(f, "format_note", None))

\* if f.get('vcodec') != 'none'
IsVideo(f) == Get(f, "vcodec", None) # NoCodec

\* key=lambda x: x.get('filesize') or 0
SizeKey(x) == Or(Get(x, "filesize", None), Int(0))[2]

\* Precedes with the order of the sort not reversed.
PrecedesAscending(a, b) == SizeKey(a) <= SizeKey(b)

\* reverse=True: a, earlier in the list, stays before b.
Precedes(a, b) == SizeKey(a) >= SizeKey(b)

\* list.sort is stable, also when reversed: x goes after every element that
\* stays before it.
SortedInsert(sorted, x) ==
    LET k == Cardinality({i \in 1..Len(sorted) : Precedes(sorted[i], x)})
    IN  SubSeq(sorted, 1, k) \o <<x>> \o SubSeq(sorted, k + 1, Len(sorted))

RECURSIVE SortBySize(_)
SortBySize(list) ==
    IF list = <<>> THEN <<>>
    ELSE SortedInsert(SortBySize(SubSeq(list, 1, Len(list) - 1)), list[Len(list)])

\* The info dict the formats are read from: the first entry of a playlist.
Video(info) ==
    IF /\ Get(info, "_type", None) = Playlist
       /\ ~Falsy(Get(info, "entries", None))
       /\ Len(info["entries"][2]) > 0
    THEN info["entries"][2][1]
    ELSE info

\* The value get_info returns for the extractor's info dict, or the
\* HTTPException its except clause makes of the exception raised: the
\* TypeError of iterating None, the KeyError of a format without a key that is
\* subscripted.
GetInfoResponse(info) ==
    LET given == Get(Video(info), "formats", List(<<>>))
        fs == SelectSeq(given[2], IsVideo)
        formats == SortBySize([i \in 1..Len(fs) |-> Simplified(fs[i])])
    IN  IF given = None
        THEN <<"400", "TypeError">>
        ELSE IF \E i \in 1..Len(fs) : {"format_id", "ext"} \ DOMAIN fs[i] # {}
        THEN <<"400", "KeyError">>
        ELSE <<"200", ("title" :> Get(Video(info), "title", None))
                      @@ ("thumbnail" :> Get(Video(info), "thumbnail", None))
                      @@ ("duration" :> Get(Video(info), "duration", None))
                      @@ ("formats" :> formats)>>

get_info ==
    /\ info_response = None
    /\ info_response' = GetInfoResponse(extracted)
    /\ UNCHANGED <<mgrVars, pollVars, jobVars, bcVars, obsVars, extracted, ws, failed>>

\* The info dicts ydl.extract_info returns: a video of at most MaxFormats
\* formats, with or without the keys get_info reads with get, or a playlist.
Mp4 == <<"m", "p", "4">>
M4a == <<"m", "4", "a">>
Avc1 == <<"a", "v", "c", "1">>
R720 == <<"7", "2", "0", "p">>
Title == <<"t">>

Sized(size) ==
    ("ext" :> Mp4) @@ ("vcodec" :> Avc1) @@ ("resolution" :> R720)
    @@ ("format_note" :> R720) @@ ("filesize" :> size)

FormatKinds ==
    {Sized(Int(500)), Sized(Int(2000)), Sized(Int(100)), Sized(Int(0)), Sized(None),
     ("ext" :> Mp4) @@ ("vcodec" :> Avc1),
     ("ext" :> M4a) @@ ("vcodec" :> NoCodec) @@ ("filesize" :> Int(2000)),
     ("ext" :> Mp4) @@ ("filesize" :> Int(500))}

FormatId(i) == <<<<"1", "2", "3", "4", "5", "6", "7", "8", "9">>[i]>>

FormatLists ==
    {[i \in 1..Len(kinds) |-> ("format_id" :> FormatId(i)) @@ kinds[i]] :
        kinds \in UNION {[1..n -> FormatKinds] : n \in 0..MaxFormats}}

Videos ==
    {("title" :> Title) @@ ("formats" :> List(fl)) : fl \in FormatLists}
    \cup {("title" :> Title), ("title" :> Title) @@ ("formats" :> None)}

Playlists ==
    {("_type" :> Playlist) @@ ("entries" :> List(<<v>>)) : v \in Videos}
    \cup {("_type" :> Playlist) @@ ("title" :> Title) @@ ("entries" :> e) :
              e \in {List(<<>>), None}}
    \cup {("_type" :> Playlist) @@ ("title" :> Title)}

InitInfo ==
    /\ Boot
    /\ script = <<Err>>
    /\ launches_left = 0
    /\ extracted \in Videos \cup Playlists

NextInfo == get_info

SpecInfo == InitInfo /\ [][NextInfo]_vars

----------------------------------------------------------------------------
(* Scheduling *)

\* The event loop resumes the broadcast_progress task whenever it is runnable.
PollerStep == PollCheck \/ PollDump \/ BroadcastNext \/ PollCopy \/ PollSleep

\* await connection.send_text(message) has no timeout: it completes when the
\* peer takes the data. The peers of these sockets may never do.
Unresponsive == {1}

SendCompletes == (SendOk \/ SendFail) /\ connection \notin Unresponsive

SpecLive ==
    /\ Spec
    /\ WF_vars(PollerStep /\ Quiet)
    /\ WF_vars(SendCompletes /\ Quiet)

----------------------------------------------------------------------------
(* The claims *)

Msgs(statuses) == [i \in 1..Len(statuses) |-> JsonDumps(statuses[i])]

\* The manager.broadcast call has ended: it returned, or it raised.
BroadcastReturned == pc = "copy"
BroadcastEnded == pc \in {"copy", "dead"}

\* C1: no two consecutive messages published by broadcast_progress are equal,
\* whatever the writes of the launch and of the hook and however they
\* interleave with the poller.
C1_NoConsecutiveDuplicates ==
    \A i \in 1..(Len(published) - 1) : published[i] # published[i + 1]

\* C2: a broadcast during which the registry did not change has called
\* send_text once on each socket registered when it began, in order, and every
\* such socket whose send did not fail has received the message.
C2_AllAttempted ==
    (BroadcastEnded /\ ~bc_changed) =>
        /\ bc_attempts = bc_start
        /\ \A c \in Range(bc_start) \ failed : c \in bc_delivered

\* C3: a broadcast that returned has delivered the message to every socket
\* that was registered when it began and was not removed meanwhile.
C3_NoSkippedDelivery ==
    BroadcastReturned =>
        \A c \in Range(bc_start) :
            Contains(active_connections, c) => c \in bc_delivered

\* C4: the first socket, registered before the launch, still open and never
\* failing, has received the five messages Starting, Downloading(10),
\* Downloading(55), Downloading(100), Finished in that order once the poller has
\* finished a cycle on each of the five values.
C4_FiveInOrder ==
    ( /\ script = JobScript
      /\ Len(written) = 5
      /\ all_seen /\ cur_seen
      /\ pc = "sleep"
      /\ rx_early
      /\ ws[1] = "open"
      /\ failed = {} )
    => rx = Msgs(written)

\* C5 (as stated): a socket receives only messages whose broadcast began after
\* its registration, that is every socket a broadcast has delivered to was
\* registered when the broadcast began.
C5_OnlyLaterBroadcasts ==
    \A c \in bc_delivered : Contains(bc_start, c)

\* C5 (amended): a socket receives a message only by a send_text of a running
\* broadcast that completes after the socket registered, so never a message
\* whose broadcast had ended before it registered.
C5_NoReplay ==
    [][\A c \in Conns :
          (c \in bc_delivered' /\ c \notin bc_delivered) =>
              /\ pc = "await"
              /\ connection = c
              /\ ws[c] # "new"
              /\ message' = message]_vars

C5_Witness ==
    \E c \in bc_delivered : ~Contains(bc_start, c) /\ ws[c] = "open"

\* C6: a launch made while an earlier job has not written Finished sets the
\* status slot to Starting, returns the acknowledgement, raises nothing and
\* leaves the registry unchanged.
C6_OverlappingLaunch ==
    [][(start_download /\ RunningJob) =>
          /\ current_status' = Starting
          /\ response' = Ack
          /\ raised' = "none"
          /\ active_connections' = active_connections]_vars

C6_Witness ==
    /\ Len(jobs) = 2
    /\ jobs[1] = 0
    /\ current_status = Starting
    /\ response = Ack
    /\ active_connections # <<>>

\* C7: disconnect of a socket that is not in the registry raises nothing and
\* leaves the registry unchanged.
C7_UnregisterAbsent ==
    [][\A c \in Conns :
          (MgrDisconnect(c) /\ ~Contains(active_connections, c)) =>
              /\ raised' = "none"
              /\ active_connections' = active_connections]_vars

\* C8: within a single job the messages received by the first socket are a
\* subsequence of the values written to the status slot, in the same order.
C8_Subsequence == IsSubseq(rx, Msgs(written))

C8_Witness ==
    /\ Len(rx) >= 3
    /\ Len(rx) < Len(written)
    /\ rx # SubSeq(Msgs(written), 1, Len(rx))

\* C9: two sockets that were registered when a broadcast began, are still
\* registered when it has ended and did not fail have both received its message
\* or both not.
C9_SameDeliveries ==
    BroadcastEnded =>
        \A a, b \in (Range(bc_start) \cap Range(active_connections)) \ failed :
            a \in bc_delivered <=> b \in bc_delivered

\* C10: a socket whose send_text failed during a broadcast is no longer in the
\* registry.
C10_FailedRemoved ==
    \A c \in failed : ~Contains(active_connections, c)

\* C11: the broadcast_progress task never ends: whatever the writes,
\* registrations, disconnects and send failures, the loop is still running.
C11_PollerRunning == pc # "dead"

\* C14: at the end of every poller cycle last_status is the value carried by
\* the message published last, also when the hook wrote the status slot while
\* the broadcast was in progress.
C14_RecordedIsPublished ==
    (pc = "sleep" /\ published # <<>>) =>
        JsonDumps(last_status) = published[Len(published)]

\* C16: last_status starts different from every value of the status slot, the
\* initial one included, so the first poller cycle publishes: a cycle has never
\* reached its sleep with nothing published.
C16_FirstCyclePublishes ==
    /\ (published = <<>> /\ pc \in {"check", "dump"}) => last_status # current_status
    /\ pc = "sleep" => published # <<>>

\* C18: the registry holds exactly the sockets whose handshake completed and
\* whose transport has not closed or failed, each once: a socket is absent
\* once its websocket_endpoint handler has ended, whichever way it ended.
C18_RegistryExact ==
    /\ \A c \in Conns :
           Contains(active_connections, c) <=> (ws[c] = "open" /\ c \notin failed)
    /\ \A i, j \in 1..Len(active_connections) :
           active_connections[i] = active_connections[j] => i = j

\* The running broadcast has not reached socket c yet.
Pending(c) ==
    /\ pc \in {"iter", "await"}
    /\ \E i \in (it + 1)..Len(active_connections) : active_connections[i] = c

\* C12: a socket whose send never completes does not stall the others: every
\* other socket the running broadcast has still to reach gets the message
\* (unless the registry changes or a send raises meanwhile), and the poller
\* gets from every send to its next cycle.
C12_NoStall ==
    /\ \A c \in Conns \ Unresponsive :
           [](Pending(c) => <>(c \in bc_delivered \/ bc_changed \/ pc = "dead"))
    /\ [](pc = "await" => <>(pc \in {"check", "dead"}))

\* The job has made its last hook call and no launch is left: the status slot
\* is not written again.
SlotFinal == launches_left = 0 /\ jobs = <<Len(script)>>

\* C15: once the status slot holds its final value v and the poller, with no
\* send failure, has run a whole cycle that began after v was written, v is
\* the message published last, and the last message received by the first
\* socket if it registered before the job and is still registered.
C15_FinalValuePublished ==
    (SlotFinal /\ cur_seen /\ pc = "sleep" /\ failed = {}) =>
        /\ published # <<>>
        /\ published[Len(published)] = JsonDumps(current_status)
        /\ (rx_early /\ ws[1] = "open") =>
               (rx # <<>> /\ rx[Len(rx)] = JsonDumps(current_status))

\* C17: a launch writes Starting before its download is scheduled: the step
\* that adds a job sets the status slot to Starting while that job has called
\* the hook no times, and no hook call sets the slot to Starting, so a job's
\* Starting never overwrites a value the same job wrote.
C17_StartingBeforeHooks ==
    [][/\ Len(jobs') > Len(jobs) =>
             /\ current_status' = Starting
             /\ jobs' = Append(jobs, 0)
       /\ (current_status' = Starting /\ current_status # Starting) =>
             Len(jobs') > Len(jobs)]_vars

C17_Witness ==
    /\ Len(jobs) = 2
    /\ jobs[2] = 1
    /\ current_status = hook(Starting, script[1])
    /\ current_status # Starting

\* C19: a hook call changes the status slot only and leaves the registry and
\* last_status as they are; no step of broadcast_progress or of broadcast
\* writes the status slot; the registry changes only by the connect or the
\* disconnect of a websocket_endpoint handler, or for the socket whose send
\* failed.
C19_Frames ==
    [][/\ (Len(jobs') = Len(jobs) /\ jobs' # jobs) =>
             /\ active_connections' = active_connections
             /\ last_status' = last_status
       /\ pc' # pc => current_status' = current_status
       /\ active_connections' # active_connections =>
             \E c \in Conns :
                 \/ /\ ws[c] = "new" /\ ws'[c] = "open"
                    /\ active_connections' = Append(active_connections, c)
                 \/ /\ ws[c] = "open" /\ ws'[c] = "closed"
                    /\ active_connections' = ListRemove(active_connections, c)
                 \/ /\ pc = "await" /\ connection = c /\ c \in failed'
                    /\ active_connections' = ListRemove(active_connections, c)]_vars

C19_Witness ==
    /\ Len(jobs) = 1
    /\ jobs[1] = 1
    /\ pc = "sleep"
    /\ last_status = Starting
    /\ current_status # Starting
    /\ Len(active_connections) = 2
    /\ \E c \in Conns : ws[c] = "closed"

\* The bijections of 1..n.
Bijections(n) == {p \in [1..n -> 1..n] : \A i, j \in 1..n : p[i] = p[j] => i = j}

\* The formats the extractor returned: those of the video, or of the first
\* entry of a playlist; none when the key is missing.
GivenFormats == Get(Video(extracted), "formats", List(<<>>))

\* Those whose vcodec is not 'none'.
VideoFormats == SelectSeq(GivenFormats[2], LAMBDA f : Get(f, "vcodec", None) # NoCodec)

\* filesize of an entry of the response, a missing one counted as 0.
SizeOrZero(x) == IF x["filesize"] = None THEN 0 ELSE x["filesize"][2]

\* C13: for every list of formats the extractor returns, the formats get_info
\* returns are a permutation of those whose vcodec is not 'none', each as its
\* simplified entry, in order of non-increasing filesize with a missing
\* filesize counted as 0; sizes 500, 2000, 100 come back as 2000, 500, 100.
C13_SortedPermutation ==
    (info_response # None /\ GivenFormats # None) =>
        LET out == info_response[2]["formats"]
        IN  /\ info_response[1] = "200"
            /\ Len(out) = Len(VideoFormats)
            /\ \E p \in Bijections(Len(out)) :
                   \A i \in 1..Len(out) :
                       /\ out[i]["format_id"] = VideoFormats[p[i]]["format_id"]
                       /\ out[i]["ext"] = VideoFormats[p[i]]["ext"]
                       /\ out[i]["filesize"] = Get(VideoFormats[p[i]], "filesize", None)
            /\ \A i \in 1..(Len(out) - 1) : SizeOrZero(out[i]) >= SizeOrZero(out[i + 1])

C13_Witness ==
    /\ info_response # None
    /\ GivenFormats # None
    /\ Len(GivenFormats[2]) = 3
    /\ Len(info_response[2]["formats"]) = 3
    /\ [i \in 1..3 |-> Get(GivenFormats[2][i], "filesize", None)]
           = <<Int(500), Int(2000), Int(100)>>
    /\ [i \in 1..3 |-> info_response[2]["formats"][i]["filesize"]]
           = <<Int(2000), Int(500), Int(100)>>

====
